---- MODULE Spec2Model ----
(***************************************************************************)
(* Error Logger (src/app.py): a two-table SQLite store (environments,      *)
(* errors), the data-access functions over it, and the Streamlit pages     *)
(* that call them.                                                         *)
(*                                                                         *)
(* TEXT values are sequences of one-character strings, so that the code's  *)
(* string operations (split, strip, json encoding, regex search) are       *)
(* computed character by character.  SQL NULL / Python None of a TEXT      *)
(* column is the one-element sequence NULL, whose element is no character. *)
(* A NULL INTEGER (environment_id, fetchone() returning None) is NULLID.   *)
(* Timestamps are whole seconds (CURRENT_TIMESTAMP has 1 s resolution).    *)
(***************************************************************************)
EXTENDS Integers, Sequences, FiniteSets, TLC

\* ------------------------------------------------------------------ bounds
NumSessions == 2    \* concurrent Streamlit sessions (script runs)
MaxTime == 2        \* the clock runs over 0..MaxTime seconds
MaxErrors == 3      \* rows of the errors table in SpecRepo
MaxFormErrors == 1  \* rows of the errors table in Spec, SpecForm, SpecSearch
MaxStoredRows == 2  \* rows of the stored errors table in SpecTags

Sessions == 1..NumSessions

\* ------------------------------------------------------------- text values
NULL == <<"NULL">>
NULLID == 0

\* Python truthiness of a str-or-None value: None and "" are falsy.
Falsy(x) == x = NULL \/ x = <<>>

\* str.lower() / re.IGNORECASE folding over the modelled alphabet.
Lower(c) == CASE c = "A" -> "a" [] c = "B" -> "b" [] OTHER -> c

\* str.strip(): drop leading and trailing blanks.
RECURSIVE LStrip(_)
LStrip(s) == IF s # <<>> /\ Head(s) = " " THEN LStrip(Tail(s)) ELSE s

RECURSIVE RStrip(_)
RStrip(s) ==
  IF s # <<>> /\ s[Len(s)] = " " THEN RStrip(SubSeq(s, 1, Len(s) - 1)) ELSE s

Strip(s) == RStrip(LStrip(s))

\* str.split(","): the pieces between commas, empty pieces included.
RECURSIVE SplitFrom(_, _, _)
SplitFrom(s, i, cur) ==
  IF i > Len(s) THEN <<cur>>
  ELSE IF s[i] = "," THEN <<cur>> \o SplitFrom(s, i + 1, <<>>)
  ELSE SplitFrom(s, i + 1, Append(cur, s[i]))

Split(s) == SplitFrom(s, 1, <<>>)

\* [tag.strip() for tag in tags_input.split(",")] if tags_input else []
parse_tags(tags_input) ==
  IF Falsy(tags_input) THEN <<>>
  ELSE LET parts == Split(tags_input)
       IN  [i \in 1..Len(parts) |-> Strip(parts[i])]

\* json.dumps of a list of strings: ["x", "y"] (no escapes occur over the
\* modelled alphabet, which holds neither the quote nor the backslash).
RECURSIVE DumpItems(_)
DumpItems(l) ==
  IF l = <<>> THEN <<>>
  ELSE <<"\"">> \o Head(l) \o <<"\"">>
       \o (IF Tail(l) = <<>> THEN <<>> ELSE <<",", " ">> \o DumpItems(Tail(l)))

json_dumps(l) == <<"[">> \o DumpItems(l) \o <<"]">>

\* json.loads restricted to arrays of strings: [ok |-> FALSE] stands for
\* json.JSONDecodeError.
RECURSIVE CloseQuote(_, _)
CloseQuote(s, i) ==
  IF i > Len(s) THEN 0 ELSE IF s[i] = "\"" THEN i ELSE CloseQuote(s, i + 1)

RECURSIVE SkipWs(_, _)
SkipWs(s, i) == IF i <= Len(s) /\ s[i] = " " THEN SkipWs(s, i + 1) ELSE i

RECURSIVE ParseArray(_, _, _)
ParseArray(s, i, acc) ==
  IF i > Len(s) \/ s[i] # "\"" THEN [ok |-> FALSE, val |-> <<>>]
  ELSE LET j == CloseQuote(s, i + 1)
       IN  IF j = 0 THEN [ok |-> FALSE, val |-> <<>>]
           ELSE LET item == SubSeq(s, i + 1, j - 1)
                    k == SkipWs(s, j + 1)
                IN  IF k = Len(s) /\ s[k] = "]"
                      THEN [ok |-> TRUE, val |-> Append(acc, item)]
                    ELSE IF k < Len(s) /\ s[k] = ","
                      THEN ParseArray(s, SkipWs(s, k + 1), Append(acc, item))
                    ELSE [ok |-> FALSE, val |-> <<>>]

json_loads(s) ==
  IF Len(s) < 2 \/ s[1] # "[" THEN [ok |-> FALSE, val |-> <<>>]
  ELSE LET i == SkipWs(s, 2)
       IN  IF i = Len(s) /\ s[i] = "]" THEN [ok |-> TRUE, val |-> <<>>]
           ELSE ParseArray(s, i, <<>>)

\* Series.str.contains(pat, case=False, na=False): pat is a REGULAR
\* EXPRESSION (pandas' default regex=True) searched anywhere in the value;
\* "." matches any character, every other modelled character itself.
MatchAt(pat, s, i) ==
  /\ i + Len(pat) - 1 <= Len(s)
  /\ \A k \in 1..Len(pat) :
        pat[k] = "." \/ Lower(pat[k]) = Lower(s[i + k - 1])

str_contains(s, pat) ==
  IF s = NULL THEN FALSE
  ELSE \E i \in 1..(Len(s) + 1) : MatchAt(pat, s, i)


\* ------------------------------------------------------------------- state
VARIABLES
  environments,     \* committed rows of table environments, in rowid order
  errors,           \* committed rows of table errors, in rowid order
  sqlite_sequence,  \* AUTOINCREMENT: the largest id ever used, per table
  lock,             \* the session holding SQLite's write lock, 0 if none
  uncommitted,      \* environments rows written by the lock holder, not committed
  now,              \* CURRENT_TIMESTAMP, in seconds
  pc,               \* per session: where its run of the script stands
  env_info,         \* per session: current_env (get_current_environment())
  env_id,           \* per session: env_id of get_or_create_environment
  exc,              \* per session: the exception that ended its run, or "none"
  form,             \* per session: the submitted form's fields
  msg,              \* per session: what the Log Error page showed on submit
  returned,         \* history: per (python_version, modules), the id the first
                    \* completed get_or_create_environment call returned
  seen,             \* history, per session: what was stored and returned for
                    \* its pair when its get_or_create_environment call began
  nsaved,           \* history: the number of save_error calls that returned
  out               \* the result of the last listing / search page

vars == <<environments, errors, sqlite_sequence, lock, uncommitted, now, pc,
          env_info, env_id, exc, form, msg, returned, seen, nsaved, out>>

db == <<environments, errors, sqlite_sequence, lock, uncommitted>>
locals == <<env_info, env_id, exc, form, msg, seen>>

\* ------------------------------------------------------------------ inputs
V311 == <<"3", ".", "1", "1">>
V312 == <<"3", ".", "1", "2">>
Linux == <<"L", "i", "n", "u", "x">>
Darwin == <<"D", "a", "r", "w", "i", "n">>
NoModules == <<"{", "}">>

Versions == {V311, V312}
Platforms == {Linux, Darwin}
ModuleSets == {NoModules}
Keys == Versions \X ModuleSets

\* What get_current_environment() returns on the machines modelled: one
\* interpreter version seen on two platforms, and a second version.
Snapshots ==
  {s \in [python_version : Versions, platform : Platforms, modules : ModuleSets] :
     s.python_version = V311 \/ s.platform = Linux}

\* The same interpreter versions on one platform.
LinuxSnapshots == {s \in Snapshots : s.platform = Linux}

NoEnvInfo == [python_version |-> NULL, platform |-> NULL, modules |-> NULL]

NoForm ==
  [error_name |-> <<>>, error_type |-> <<>>, complexity |-> "Low",
   status |-> "Open", tags_input |-> <<>>, use_current_env |-> TRUE,
   custom_env_id |-> NULLID, description |-> <<>>, traceback |-> <<>>,
   fix |-> <<>>]

NoSeen == [id |-> NULLID, rows |-> <<>>]

NoOut == [op |-> "none", arg |-> <<>>, exc |-> "none", errors_df |-> <<>>, df |-> <<>>]

\* ---------------------------------------------------------- the environments
KeyOf(info) == <<info.python_version, info.modules>>

\* WHERE python_version = ? AND modules = ?  (a comparison with NULL is never
\* true in SQL).
env_matches(row, info) ==
  /\ info.python_version # NULL /\ row.python_version = info.python_version
  /\ info.modules # NULL /\ row.modules # NULL /\ row.modules = info.modules

\* Mutant of select_env_rows: the lookup also compares the platform.
select_env_rows_platform(info) ==
  SelectSeq(environments,
            LAMBDA r : env_matches(r, info) /\ r.platform = info.platform)

\* SELECT id FROM environments WHERE ...: the matching ids, in rowid order,
\* as seen by a connection other than the lock holder's.
select_env_rows(info) == SelectSeq(environments, LAMBDA r : env_matches(r, info))

\* c.fetchone(): the first row, None if there is none.
fetchone(rows) == IF rows = <<>> THEN NULLID ELSE rows[1].id

\* Mutant of env_constraints_ok: the table without its UNIQUE constraint.
env_constraints_no_unique(info) == info.python_version # NULL

\* python_version TEXT NOT NULL and UNIQUE(python_version, modules): whether
\* the table accepts a new row (NULL modules never conflict).
env_constraints_ok(info) ==
  /\ info.python_version # NULL
  /\ \A i \in 1..Len(environments) : ~env_matches(environments[i], info)

\* Start of a script run on page "Log Error": current_env is read (line 210)
\* and get_or_create_environment(current_env) is entered (line 216).
Start(p, info) ==
  /\ pc[p] = "idle"
  /\ pc' = [pc EXCEPT ![p] = "select"]
  /\ env_info' = [env_info EXCEPT ![p] = info]
  /\ seen' = [seen EXCEPT ![p] =
                IF returned[KeyOf(info)] = NULLID THEN NoSeen
                ELSE [id |-> returned[KeyOf(info)], rows |-> select_env_rows(info)]]
  /\ UNCHANGED <<db, now, env_id, exc, form, msg, returned, nsaved, out>>

\* Lines 80-88: the SELECT, fetchone() and the branch on its result.
Select(p) ==
  /\ pc[p] = "select"
  /\ LET result == fetchone(select_env_rows(env_info[p]))
     IN  IF result # NULLID
           THEN /\ env_id' = [env_id EXCEPT ![p] = result]
                /\ pc' = [pc EXCEPT ![p] = "commit"]
           ELSE /\ env_id' = env_id
                /\ pc' = [pc EXCEPT ![p] = "insert"]
  /\ UNCHANGED <<db, now, env_info, exc, form, msg, returned, seen, nsaved, out>>

\* Lines 90-94: the INSERT takes the write lock and the next AUTOINCREMENT id;
\* the row stays invisible to other connections until the commit.
InsertOk(p) ==
  /\ pc[p] = "insert"
  /\ lock = 0
  /\ env_constraints_ok(env_info[p])
  /\ LET id == sqlite_sequence.environments + 1
     IN  /\ uncommitted' = <<[id |-> id,
                              python_version |-> env_info[p].python_version,
                              platform |-> env_info[p].platform,
                              modules |-> env_info[p].modules,
                              created_at |-> now]>>
         /\ env_id' = [env_id EXCEPT ![p] = id]
  /\ lock' = p
  /\ pc' = [pc EXCEPT ![p] = "commit"]
  /\ UNCHANGED <<environments, errors, sqlite_sequence, now, env_info, exc,
                 form, msg, returned, seen, nsaved, out>>

\* Lines 90-93 when the table's constraints reject the row: sqlite3 raises
\* IntegrityError out of get_or_create_environment (nothing catches it); the
\* connection is left open inside its transaction, holding the write lock.
InsertConflict(p) ==
  /\ pc[p] = "insert"
  /\ lock = 0
  /\ ~env_constraints_ok(env_info[p])
  /\ lock' = p
  /\ exc' = [exc EXCEPT ![p] = "IntegrityError"]
  /\ pc' = [pc EXCEPT ![p] = "raised"]
  /\ UNCHANGED <<environments, errors, sqlite_sequence, uncommitted, now,
                 env_info, env_id, form, msg, returned, seen, nsaved, out>>

\* Lines 90-93 while another connection holds the write lock: SQLite waits
\* (the step is not taken yet) or gives up with OperationalError
\* "database is locked" once sqlite3.connect's default timeout has passed.
InsertBusy(p) ==
  /\ pc[p] = "insert"
  /\ lock # 0
  /\ exc' = [exc EXCEPT ![p] = "OperationalError"]
  /\ pc' = [pc EXCEPT ![p] = "raised"]
  /\ UNCHANGED <<db, now, env_info, env_id, form, msg, returned, seen, nsaved, out>>

\* Lines 96-98: commit, close, return env_id.
Commit(p) ==
  /\ pc[p] = "commit"
  /\ IF lock = p
       THEN /\ environments' = environments \o uncommitted
            /\ sqlite_sequence' =
                 [sqlite_sequence EXCEPT !.environments = @ + Len(uncommitted)]
            /\ uncommitted' = <<>>
            /\ lock' = 0
       ELSE UNCHANGED <<environments, sqlite_sequence, uncommitted, lock>>
  /\ returned' = [returned EXCEPT ![KeyOf(env_info[p])] =
                    IF @ = NULLID THEN env_id[p] ELSE @]
  /\ pc' = [pc EXCEPT ![p] = "form"]
  /\ UNCHANGED <<errors, now, env_info, env_id, exc, form, msg, seen, nsaved, out>>

\* An exception ended the script run: the connection object is dropped, which
\* rolls its transaction back and releases the lock; the session can rerun.
Abort(p) ==
  /\ pc[p] = "raised"
  /\ IF lock = p
       THEN lock' = 0 /\ uncommitted' = <<>>
       ELSE UNCHANGED <<lock, uncommitted>>
  /\ pc' = [pc EXCEPT ![p] = "idle"]
  /\ env_info' = [env_info EXCEPT ![p] = NoEnvInfo]
  /\ env_id' = [env_id EXCEPT ![p] = NULLID]
  /\ exc' = [exc EXCEPT ![p] = "none"]
  /\ form' = [form EXCEPT ![p] = NoForm]
  /\ msg' = [msg EXCEPT ![p] = "none"]
  /\ seen' = [seen EXCEPT ![p] = NoSeen]
  /\ UNCHANGED <<environments, errors, sqlite_sequence, now, returned, nsaved, out>>

\* The script run ends (with or without a submitted form); the next
\* interaction reruns the script from the top.
EndRun(p) ==
  /\ pc[p] \in {"form", "end"}
  /\ pc' = [pc EXCEPT ![p] = "idle"]
  /\ env_info' = [env_info EXCEPT ![p] = NoEnvInfo]
  /\ env_id' = [env_id EXCEPT ![p] = NULLID]
  /\ form' = [form EXCEPT ![p] = NoForm]
  /\ msg' = [msg EXCEPT ![p] = "none"]
  /\ seen' = [seen EXCEPT ![p] = NoSeen]
  /\ UNCHANGED <<db, now, exc, returned, nsaved, out>>

\* The wall clock behind CURRENT_TIMESTAMP advances.
Tick ==
  /\ now < MaxTime
  /\ now' = now + 1
  /\ UNCHANGED <<db, pc, locals, returned, nsaved, out>>


\* ---------------------------------------------------------------- the errors
\* dict.get(key, default)
Get(d, k, default) == IF k \in DOMAIN d THEN d[k] ELSE default

\* Mutant of form_valid: only the name is required.
form_valid_name_only(f) == ~Falsy(f.error_name)

\* Line 246: "if not error_name or not description" rejects the form.
form_valid(f) == ~(Falsy(f.error_name) \/ Falsy(f.description))

\* Lines 249-261: the error_data the Log Error page builds from the form.
build_error_data(f, current_env_id) ==
  [error_name |-> f.error_name,
   description |-> f.description,
   error_type |-> IF Falsy(f.error_type) THEN NULL ELSE f.error_type,
   traceback |-> IF Falsy(f.traceback) THEN NULL ELSE f.traceback,
   fix |-> IF Falsy(f.fix) THEN NULL ELSE f.fix,
   complexity |-> f.complexity,
   status |-> f.status,
   tags |-> parse_tags(f.tags_input),
   environment_id |-> IF f.use_current_env THEN current_env_id
                      ELSE f.custom_env_id]

\* Line 105: json.dumps(tags) if tags else None.
tags_str(error_data) ==
  IF Get(error_data, "tags", <<>>) # <<>>
    THEN json_dumps(Get(error_data, "tags", <<>>))
    ELSE NULL

\* Mutant of save_error: a row with the same content is not stored again.
save_error_dedup(error_data) ==
  IF \E i \in 1..Len(errors) :
       /\ errors[i].error_name = error_data.error_name
       /\ errors[i].description = error_data.description
       /\ errors[i].environment_id = error_data.environment_id
    THEN errors
    ELSE Append(errors,
                [id |-> sqlite_sequence.errors + 1,
                 error_name |-> error_data.error_name,
                 description |-> error_data.description,
                 error_type |-> error_data.error_type,
                 traceback |-> error_data.traceback,
                 fix |-> error_data.fix,
                 complexity |-> error_data.complexity,
                 status |-> error_data.status,
                 tags |-> tags_str(error_data),
                 environment_id |-> error_data.environment_id,
                 created_at |-> now,
                 updated_at |-> now])

\* Lines 100-125, save_error: the errors table after the INSERT and commit.
\* (error_name TEXT NOT NULL never rejects the row: the form handler passes a
\* non-empty name.)
save_error(error_data) ==
  Append(errors,
         [id |-> sqlite_sequence.errors + 1,
          error_name |-> error_data.error_name,
          description |-> Get(error_data, "description", NULL),
          error_type |-> Get(error_data, "error_type", NULL),
          traceback |-> Get(error_data, "traceback", NULL),
          fix |-> Get(error_data, "fix", NULL),
          complexity |-> Get(error_data, "complexity", NULL),
          status |-> Get(error_data, "status", "Open"),
          tags |-> tags_str(error_data),
          environment_id |-> Get(error_data, "environment_id", NULLID),
          created_at |-> now,
          updated_at |-> now])

\* Lines 232-237: without "Link to current environment" the form offers the
\* rows of get_all_environments().
env_choice_ok(f) ==
  IF f.use_current_env THEN f.custom_env_id = NULLID
  ELSE \E i \in 1..Len(environments) : environments[i].id = f.custom_env_id

\* Lines 245-247: the submitted form lacks a required field.
SubmitReject(p, f) ==
  /\ pc[p] = "form"
  /\ env_choice_ok(f)
  /\ ~form_valid(f)
  /\ form' = [form EXCEPT ![p] = f]
  /\ msg' = [msg EXCEPT ![p] = "rejected"]
  /\ pc' = [pc EXCEPT ![p] = "end"]
  /\ UNCHANGED <<db, now, env_info, env_id, exc, returned, seen, nsaved, out>>

\* Lines 248-265: the form is saved; save_error's INSERT and commit take and
\* release the write lock (cap bounds the table).
SubmitSave(p, f, cap) ==
  /\ pc[p] = "form"
  /\ env_choice_ok(f)
  /\ form_valid(f)
  /\ lock = 0
  /\ Len(errors) < cap
  /\ errors' = save_error(build_error_data(f, env_id[p]))
  /\ sqlite_sequence' =
       [sqlite_sequence EXCEPT !.errors = @ + (Len(errors') - Len(errors))]
  /\ nsaved' = nsaved + 1
  /\ form' = [form EXCEPT ![p] = f]
  /\ msg' = [msg EXCEPT ![p] = "saved"]
  /\ pc' = [pc EXCEPT ![p] = "end"]
  /\ UNCHANGED <<environments, lock, uncommitted, now, env_info, env_id, exc,
                 returned, seen, out>>

\* Lines 263, 107-122 while another connection holds the write lock:
\* save_error's INSERT gives up with OperationalError.
SubmitBusy(p, f) ==
  /\ pc[p] = "form"
  /\ env_choice_ok(f)
  /\ form_valid(f)
  /\ lock # 0
  /\ form' = [form EXCEPT ![p] = f]
  /\ exc' = [exc EXCEPT ![p] = "OperationalError"]
  /\ pc' = [pc EXCEPT ![p] = "raised"]
  /\ UNCHANGED <<db, now, env_info, env_id, msg, returned, seen, nsaved, out>>

\* ------------------------------------------------------------------ queries
\* One row of get_all_errors' SELECT list (lines 132-145): environment_id is
\* not among the selected columns.
joined_row(e, python_version, platform) ==
  [id |-> e.id, error_name |-> e.error_name, description |-> e.description,
   error_type |-> e.error_type, traceback |-> e.traceback, fix |-> e.fix,
   complexity |-> e.complexity, status |-> e.status, tags |-> e.tags,
   created_at |-> e.created_at, updated_at |-> e.updated_at,
   python_version |-> python_version, platform |-> platform]

\* LEFT JOIN environments env ON e.environment_id = env.id (lines 146-147).
left_join(e) ==
  LET m == SelectSeq(environments,
                     LAMBDA env : e.environment_id # NULLID
                                  /\ env.id = e.environment_id)
  IN  IF m = <<>> THEN <<joined_row(e, NULL, NULL)>>
      ELSE [i \in 1..Len(m) |-> joined_row(e, m[i].python_version, m[i].platform)]

RECURSIVE JoinAll(_)
JoinAll(rows) ==
  IF rows = <<>> THEN <<>> ELSE left_join(Head(rows)) \o JoinAll(Tail(rows))

\* ORDER BY e.created_at DESC: SQLite scans errors in rowid order and sorts
\* the rows by the key alone; rows with equal created_at stay in scan order.
RECURSIVE InsertSorted(_, _)
InsertSorted(sorted, r) ==
  IF sorted = <<>> THEN <<r>>
  ELSE IF Head(sorted).created_at >= r.created_at
    THEN <<Head(sorted)>> \o InsertSorted(Tail(sorted), r)
    ELSE <<r>> \o sorted

RECURSIVE order_by_created_at_desc(_)
order_by_created_at_desc(rows) ==
  IF rows = <<>> THEN <<>>
  ELSE InsertSorted(order_by_created_at_desc(SubSeq(rows, 1, Len(rows) - 1)),
                    rows[Len(rows)])

\* lambda x: json.loads(x) if x else []   (lines 155, 192)
decode_tags(x) == IF Falsy(x) THEN [ok |-> TRUE, val |-> <<>>] ELSE json_loads(x)

\* Lines 154-155 / 191-192: df['tags'].apply(...) over a non-empty frame; one
\* row that fails to decode raises out of the whole call.
apply_tags(rows) ==
  IF \E i \in 1..Len(rows) : ~decode_tags(rows[i].tags).ok
    THEN [exc |-> "JSONDecodeError", df |-> <<>>]
    ELSE [exc |-> "none",
          df |-> [i \in 1..Len(rows) |->
                    [rows[i] EXCEPT !.tags = decode_tags(rows[i].tags).val]]]

\* Lines 127-157.
get_all_errors == apply_tags(order_by_created_at_desc(JoinAll(errors)))

\* One row of get_errors_by_environment's SELECT list (lines 171-182).
plain_row(e) ==
  [id |-> e.id, error_name |-> e.error_name, description |-> e.description,
   error_type |-> e.error_type, traceback |-> e.traceback, fix |-> e.fix,
   complexity |-> e.complexity, status |-> e.status, tags |-> e.tags,
   created_at |-> e.created_at, updated_at |-> e.updated_at]

\* Mutant of get_errors_by_environment: the ORDER BY is missing.
get_errors_by_environment_unordered(e_id) ==
  LET hit == SelectSeq(errors,
                       LAMBDA e : e.environment_id # NULLID /\ e_id # NULLID
                                  /\ e.environment_id = e_id)
  IN  apply_tags([i \in 1..Len(hit) |-> plain_row(hit[i])])

\* Lines 166-194.  WHERE e.environment_id = ? is never true of a NULL.
get_errors_by_environment(e_id) ==
  LET hit == SelectSeq(errors,
                       LAMBDA e : e.environment_id # NULLID /\ e_id # NULLID
                                  /\ e.environment_id = e_id)
  IN  apply_tags(order_by_created_at_desc([i \in 1..Len(hit) |-> plain_row(hit[i])]))

\* Lines 365-376: the Search & Filter page's three filters over errors_df.
search_filter(df, search_term, filter_status, filter_complexity) ==
  LET f1 == IF search_term # <<>>
              THEN SelectSeq(df, LAMBDA r :
                     str_contains(r.error_name, search_term)
                     \/ str_contains(r.description, search_term))
              ELSE df
      f2 == IF filter_status # {}
              THEN SelectSeq(f1, LAMBDA r : r.status \in filter_status)
              ELSE f1
  IN  IF filter_complexity # {}
        THEN SelectSeq(f2, LAMBDA r : r.complexity \in filter_complexity)
        ELSE f2

\* Page "View Errors" (lines 267-270).
ViewErrorsPage ==
  /\ out' = [op |-> "view", arg |-> <<>>, exc |-> get_all_errors.exc,
             errors_df |-> <<>>, df |-> get_all_errors.df]
  /\ UNCHANGED <<db, now, pc, locals, returned, nsaved>>

\* Page "Environments", one row's errors (line 339).
EnvironmentsPage(e_id) ==
  /\ \E i \in 1..Len(environments) : environments[i].id = e_id
  /\ out' = [op |-> "environment", arg |-> <<e_id>>,
             exc |-> get_errors_by_environment(e_id).exc,
             errors_df |-> <<>>,
             df |-> get_errors_by_environment(e_id).df]
  /\ UNCHANGED <<db, now, pc, locals, returned, nsaved>>

\* Page "Search & Filter" (lines 345-378): the widgets exist only over a
\* non-empty frame, and the multiselects offer the values present in it.
SearchPage(search_term, filter_status, filter_complexity) ==
  LET errors_df == get_all_errors
  IN  /\ errors_df.exc = "none"
      /\ errors_df.df # <<>>
      /\ filter_status \subseteq
           {errors_df.df[i].status : i \in 1..Len(errors_df.df)}
      /\ filter_complexity \subseteq
           {errors_df.df[i].complexity : i \in 1..Len(errors_df.df)}
      /\ out' = [op |-> "search",
                 arg |-> <<search_term, filter_status, filter_complexity>>,
                 exc |-> "none",
                 errors_df |-> errors_df.df,
                 df |-> search_filter(errors_df.df, search_term, filter_status,
                                      filter_complexity)]
      /\ UNCHANGED <<db, now, pc, locals, returned, nsaved>>

\* --------------------------------------------------------- specifications
Init ==
  /\ environments = <<>>
  /\ errors = <<>>
  /\ sqlite_sequence = [environments |-> 0, errors |-> 0]
  /\ lock = 0
  /\ uncommitted = <<>>
  /\ now = 0
  /\ pc = [p \in Sessions |-> "idle"]
  /\ env_info = [p \in Sessions |-> NoEnvInfo]
  /\ env_id = [p \in Sessions |-> NULLID]
  /\ exc = [p \in Sessions |-> "none"]
  /\ form = [p \in Sessions |-> NoForm]
  /\ msg = [p \in Sessions |-> "none"]
  /\ returned = [k \in Keys |-> NULLID]
  /\ seen = [p \in Sessions |-> NoSeen]
  /\ nsaved = 0
  /\ out = NoOut

\* The form of the registry specification.
RegistryForms == {[NoForm EXCEPT !.error_name = <<"a">>, !.description = <<"b">>]}

\* Concurrent sessions on page "Log Error".
Next ==
  \/ \E p \in Sessions, info \in Snapshots : Start(p, info)
  \/ \E p \in Sessions : Select(p)
  \/ \E p \in Sessions : InsertOk(p)
  \/ \E p \in Sessions : InsertConflict(p)
  \/ \E p \in Sessions : InsertBusy(p)
  \/ \E p \in Sessions : Commit(p)
  \/ \E p \in Sessions : Abort(p)
  \/ \E p \in Sessions, f \in RegistryForms : SubmitSave(p, f, MaxFormErrors)
  \/ \E p \in Sessions, f \in RegistryForms : SubmitBusy(p, f)
  \/ \E p \in Sessions : EndRun(p)

Spec == Init /\ [][Next]_vars

\* Forms of the repository specification: the environment link varies.
RepoForms ==
  {[NoForm EXCEPT !.error_name = n, !.description = <<"b">>,
                  !.use_current_env = u, !.custom_env_id = c] :
     n \in {<<>>, <<"a">>}, u \in BOOLEAN, c \in 0..Cardinality(Keys)}

\* One session logging errors under changing environments and clock.
NextRepo ==
  \/ \E info \in LinuxSnapshots : Start(1, info)
  \/ Select(1)
  \/ InsertOk(1)
  \/ Commit(1)
  \/ \E f \in RepoForms : SubmitReject(1, f)
  \/ \E f \in RepoForms : SubmitSave(1, f, MaxErrors)
  \/ EndRun(1)
  \/ Tick

SpecRepo == Init /\ [][NextRepo]_vars

\* Forms of the form specification: every text field varies.
FullForms ==
  {[NoForm EXCEPT !.error_name = n, !.description = d, !.error_type = t,
                  !.tags_input = g, !.status = st, !.complexity = cx] :
     n \in {<<>>, <<"a">>},
     d \in {<<>>, <<"b">>},
     t \in {<<>>, <<"T">>},
     g \in {<<>>, <<"x", ",", " ", "y">>, <<"y", ",", "x">>},
     st \in {"Open", "Resolved"},
     cx \in {"Low"}}

\* One session filling the form.
NextForm ==
  \/ \E info \in {s \in LinuxSnapshots : s.python_version = V311} : Start(1, info)
  \/ Select(1)
  \/ InsertOk(1)
  \/ Commit(1)
  \/ \E f \in FullForms : SubmitReject(1, f)
  \/ \E f \in FullForms : SubmitSave(1, f, MaxFormErrors)
  \/ EndRun(1)

SpecForm == Init /\ [][NextForm]_vars

\* Forms of the search specification: the searched and filtered fields vary.
SearchForms ==
  {[NoForm EXCEPT !.error_name = n, !.description = <<"b">>, !.status = st,
                  !.complexity = cx] :
     n \in {<<>>, <<"a">>, <<"B">>},
     st \in {"Open", "Resolved"},
     cx \in {"Low", "Critical"}}

SearchTerms == {<<>>, <<"a">>, <<"A">>, <<".">>}

\* One session logging errors, and the Search & Filter page.
NextSearch ==
  \/ \E info \in {s \in LinuxSnapshots : s.python_version = V311} : Start(1, info)
  \/ Select(1)
  \/ InsertOk(1)
  \/ Commit(1)
  \/ \E f \in SearchForms : SubmitReject(1, f)
  \/ \E f \in SearchForms : SubmitSave(1, f, MaxFormErrors)
  \/ EndRun(1)
  \/ \E t \in SearchTerms, fs \in SUBSET {"Open", "Resolved"},
        fc \in SUBSET {"Low", "Critical"} : SearchPage(t, fs, fc)

SpecSearch == Init /\ [][NextSearch]_vars

\* The listings over a database file whose errors rows were not all written
\* by save_error: the schema (lines 38-54) accepts any TEXT in tags and any
\* INTEGER or NULL in environment_id.
StoredTags ==
  {NULL, <<>>, json_dumps(<<<<"x">>>>), <<"[", "\"", "x">>, <<"x">>}

StoredRow(i, t, e) ==
  [id |-> i, error_name |-> <<"a">>, description |-> <<"b">>,
   error_type |-> NULL, traceback |-> NULL, fix |-> NULL,
   complexity |-> "Low", status |-> "Open", tags |-> t,
   environment_id |-> e, created_at |-> 0, updated_at |-> 0]

StoredTables ==
  UNION {{[i \in 1..n |-> StoredRow(i, ts[i], es[i])] :
            ts \in [1..n -> StoredTags], es \in [1..n -> {NULLID, 1, 2}]} :
         n \in 1..MaxStoredRows}

InitTags ==
  /\ environments = <<[id |-> 1, python_version |-> V311, platform |-> Linux,
                       modules |-> NoModules, created_at |-> 0]>>
  /\ errors \in StoredTables
  /\ sqlite_sequence = [environments |-> 1, errors |-> Len(errors)]
  /\ lock = 0
  /\ uncommitted = <<>>
  /\ now = 0
  /\ pc = [p \in Sessions |-> "idle"]
  /\ env_info = [p \in Sessions |-> NoEnvInfo]
  /\ env_id = [p \in Sessions |-> NULLID]
  /\ exc = [p \in Sessions |-> "none"]
  /\ form = [p \in Sessions |-> NoForm]
  /\ msg = [p \in Sessions |-> "none"]
  /\ returned = [k \in Keys |-> NULLID]
  /\ seen = [p \in Sessions |-> NoSeen]
  /\ nsaved = 0
  /\ out = NoOut

NextTags ==
  \/ ViewErrorsPage
  \/ \E e_id \in 1..Cardinality(Keys) : EnvironmentsPage(e_id)

SpecTags == InitTags /\ [][NextTags]_vars


\* ------------------------------------------------------------------ claims
\* The position in errors of the row with the given id.
RowIndex(id) == (CHOOSE i \in 1..Len(errors) : errors[i].id = id)

\* C1: a get_or_create_environment call that begins after a call with the
\* same (python_version, modules) pair has returned never reaches the
\* INSERT, returns the id the earlier call returned, and leaves the rows
\* stored for the pair exactly as they were when it began: one row, with
\* the platform recorded first, whatever platform the later snapshot has.
C1_RepeatSameId ==
  \A p \in Sessions :
    seen[p].id # NULLID =>
      /\ pc[p] # "insert"
      /\ pc[p] \notin {"idle", "select"} => env_id[p] = seen[p].id
      /\ Len(seen[p].rows) = 1
      /\ seen[p].rows[1].id = seen[p].id
      /\ select_env_rows(env_info[p]) = seen[p].rows
      /\ lock = p => uncommitted = <<>>

\* C1's case: a later call with another platform has returned the id of the
\* row stored first.
C1_Witness ==
  \E p \in Sessions :
    /\ seen[p].id # NULLID
    /\ pc[p] = "form"
    /\ env_id[p] = seen[p].id
    /\ seen[p].rows[1].platform # env_info[p].platform

\* C2: in every reachable state the environments table (the lock holder's
\* uncommitted row included) holds no two rows with the same
\* (python_version, modules) pair.
C2_UniquePair ==
  LET t == environments \o uncommitted
  IN  \A i, j \in 1..Len(t) :
        (t[i].python_version = t[j].python_version /\ t[i].modules = t[j].modules)
          => i = j

\* C2's case: two callers ran the SELECT before either INSERT (the second
\* INSERT met the stored row), and save_error has run as well.
C2_Witness ==
  /\ \E p \in Sessions : exc[p] = "IntegrityError"
  /\ Len(environments) >= 1
  /\ Len(errors) >= 1

\* C3 (as claimed): no get_or_create_environment call ends with the
\* uniqueness conflict surfaced as an error.
C3_ConflictReused == \A p \in Sessions : exc[p] # "IntegrityError"

\* C4 (as claimed): get_all_errors returns every stored error exactly once,
\* newest first, and the record saved last is its first entry whenever no
\* other record has a later creation timestamp.
C4_NewestFirst ==
  LET r == get_all_errors
      last == errors[Len(errors)]
  IN  /\ r.exc = "none"
      /\ Len(r.df) = Len(errors)
      /\ \A i \in 1..Len(errors) : \E j \in 1..Len(r.df) : r.df[j].id = errors[i].id
      /\ \A i, j \in 1..Len(r.df) : i < j => r.df[i].created_at >= r.df[j].created_at
      /\ (errors # <<>> /\ \A i \in 1..Len(errors) : errors[i].created_at <= last.created_at)
            => r.df[1].id = last.id

\* C5 (as claimed): the record get_all_errors returns for a saved error_data
\* carries every supplied field unchanged, the tags as the same sequence of
\* strings, and empty tags are stored as NULL.
C5_RoundTrip ==
  \A p \in Sessions :
    (pc[p] = "end" /\ msg[p] = "saved") =>
      LET d == build_error_data(form[p], env_id[p])
          r == get_all_errors
          row == r.df[CHOOSE j \in 1..Len(r.df) : r.df[j].id = errors[Len(errors)].id]
      IN  /\ r.exc = "none"
          /\ \A k \in DOMAIN d : k \in DOMAIN row /\ row[k] = d[k]
          /\ (d.tags = <<>>) <=> (errors[Len(errors)].tags = NULL)

\* C6: a submitted form with an empty name or an empty description is
\* rejected and leaves the errors table as it was.
C6_RejectNoRow ==
  [][\A p \in Sessions :
       (/\ pc[p] = "form"
        /\ pc'[p] \in {"end", "raised"}
        /\ (Falsy(form'[p].error_name) \/ Falsy(form'[p].description)))
         => (errors' = errors /\ msg'[p] = "rejected")]_vars

\* C6's case: a form with a name and no description was rejected while the
\* table held a row.
C6_Witness ==
  \E p \in Sessions :
    /\ pc[p] = "end"
    /\ msg[p] = "rejected"
    /\ form[p].error_name # <<>>
    /\ form[p].description = <<>>
    /\ errors # <<>>

\* C7: for every environment id e, get_errors_by_environment(e) returns
\* exactly the records of get_all_errors whose stored environment_id is e,
\* column for column, in get_all_errors' order.
C7_ByEnvironment ==
  \A e_id \in 1..(Cardinality(Keys) + 1) :
    LET a == get_all_errors
        b == get_errors_by_environment(e_id)
        sub == SelectSeq(a.df, LAMBDA r : errors[RowIndex(r.id)].environment_id = e_id)
    IN  /\ a.exc = "none"
        /\ b.exc = "none"
        /\ Len(b.df) = Len(sub)
        /\ \A i \in 1..Len(sub) :
             b.df[i] = [k \in DOMAIN b.df[i] |-> sub[i][k]]

\* C7's case: an environment with two records listed against rowid order,
\* and a record of another environment left out.
C7_Witness ==
  \E e_id \in 1..Cardinality(Keys) :
    LET b == get_errors_by_environment(e_id)
    IN  /\ Len(b.df) = 2
        /\ b.df[1].id > b.df[2].id
        /\ Len(errors) = 3

\* Case-insensitive literal substring, the search the claim describes.
SubstringCI(s, t) ==
  /\ s # NULL
  /\ \E i \in 1..(Len(s) + 1) :
       /\ i + Len(t) - 1 <= Len(s)
       /\ \A k \in 1..Len(t) : Lower(t[k]) = Lower(s[i + k - 1])

\* C8 (as claimed): the Search & Filter result is exactly the records whose
\* name or description holds the term as a case-insensitive substring and
\* whose status and complexity are in the (non-empty) selections.
C8_SearchExact ==
  out.op = "search" =>
    out.df = SelectSeq(out.errors_df, LAMBDA r :
               /\ (out.arg[1] = <<>> \/ SubstringCI(r.error_name, out.arg[1])
                   \/ SubstringCI(r.description, out.arg[1]))
               /\ (out.arg[2] = {} \/ r.status \in out.arg[2])
               /\ (out.arg[3] = {} \/ r.complexity \in out.arg[3]))

\* C9 (as claimed): a listing completes and returns every row it selects,
\* a row whose stored tags do not decode carrying the empty sequence.
C9_ListingsTotal ==
  out.op \in {"view", "environment"} =>
    /\ out.exc = "none"
    /\ out.op = "view" => Len(out.df) = Len(errors)
    /\ \A i \in 1..Len(out.df) :
         ~decode_tags(errors[RowIndex(out.df[i].id)].tags).ok => out.df[i].tags = <<>>

\* C10: every save_error call that returns appends exactly one row with a
\* fresh id and leaves the stored error rows and the environments table as
\* they were; no step changes or removes a stored row of either table.
C10_AppendOnly ==
  [][/\ Len(errors') >= Len(errors)
     /\ SubSeq(errors', 1, Len(errors)) = errors
     /\ Len(environments') >= Len(environments)
     /\ SubSeq(environments', 1, Len(environments)) = environments
     /\ nsaved' = nsaved => errors' = errors
     /\ nsaved' # nsaved =>
          /\ nsaved' = nsaved + 1
          /\ Len(errors') = Len(errors) + 1
          /\ \A i \in 1..Len(errors) : errors[i].id # errors'[Len(errors')].id
          /\ environments' = environments]_vars

\* C10's case: two stored rows with the same content and different ids.
C10_Witness ==
  \E i, j \in 1..Len(errors) :
    /\ i < j
    /\ errors[i].id # errors[j].id
    /\ [errors[i] EXCEPT !.id = 0] = [errors[j] EXCEPT !.id = 0]

====
